---- MODULE Spec2Model ----
(***************************************************************************)
(* Model of the server monitoring bot (class ServerMonitoringBot, the      *)
(* JavaScript program held in src/docker-entrypoint.sh lines 40-419, and   *)
(* its configuration module src/config.js).                                *)
(*                                                                         *)
(* One action is one run of the event loop between two suspension points   *)
(* (await) of the code: a handler runs synchronously until it awaits an    *)
(* HTTP request, a sleep or a webhook POST, and the completion of that     *)
(* request, sleep or POST is the next action.                              *)
(*                                                                         *)
(* The configured server URLs are pairwise distinct (the targets form a    *)
(* set): a URL listed twice is outside this model.                         *)
(*                                                                         *)
(* The handlers of process events (SIGINT, SIGTERM, uncaughtException,     *)
(* unhandledRejection) run from the event loop, so none runs before the    *)
(* main module has called bot.start() and start() has reached its first    *)
(* await or has exited.                                                    *)
(***************************************************************************)
EXTENDS Integers, Sequences, FiniteSets, TLC

(***************************************************************************)
(* Bounds of the model.                                                    *)
(***************************************************************************)
\* largest number of configured server URLs
MaxTargets == 2
\* largest configured RETRY_ATTEMPTS
MaxRetry == 3
\* number of health-check cycles started in one run of the process
MaxCycles == 3
\* number of health-check cycles that may be in flight at the same time
MaxOverlap == 2

(***************************************************************************)
(* Values.                                                                 *)
(***************************************************************************)
\* JavaScript null (lastCheck: null, error: null)
Null == <<>>

\* new Date(), abstracted to the ordinal of the cycle that took it
Date(n) == <<"date", n>>

\* a URL string, cut into the scheme the WHATWG parser needs and the rest
Url(scheme, rest) == [scheme |-> scheme, rest |-> rest]

UrlPool ==
  <<Url("https", "good.example"), Url("https", "bad.example"),
    Url("https", "third.example")>>

NotAUrl == Url("", "not-a-url")

\* the default of config.successStatusCodes
DefaultSuccessCodes == {200, 201, 202, 204, 301, 302, 304}

\* the allow-sets the configuration is drawn from
AllowSets == {DefaultSuccessCodes, {404}}

\* the status codes a probed server answers with
StatusCodes == {200, 404, 500}

\* error.message of a transport-level failure of axios.get
TransportErrors == {"timeout of 10000ms exceeded", "connect ECONNREFUSED"}

DefaultRetryDelay == 1000

\* the values of config.retryDelay the configuration is drawn from
RetryDelays == {DefaultRetryDelay}

\* the outcomes of axios.post: HTTP 200, another 2xx status, or a throw
\* (timeout, network error, status outside 2xx)
WebhookOutcomes == {"http200", "httpOther", "throws"}

VARIABLES
  config,         \* the config object of src/config.js
  serverStatus,   \* this.serverStatus: Map url -> status record
  isRunning,      \* this.isRunning
  cronJob,        \* this.cronJob: "null", "started" or "stopped"
  exitCode,       \* <<>> while the process lives, <<code>> once it has exited
  startPc,        \* position of start(): "new", "initialCheck", "done"
  cycles,         \* the performHealthCheck invocations in flight
  cyclesStarted,  \* number of performHealthCheck invocations so far
  summary,        \* the last "Health check completed" line, <<>> before it
  history,        \* per url, the classifications written so far (history variable)
  notified        \* per url, the kinds of alert generated so far (history variable)

vars ==
  <<config, serverStatus, isRunning, cronJob, exitCode, startPc, cycles,
    cyclesStarted, summary, history, notified>>

(***************************************************************************)
(* Helpers.                                                                *)
(***************************************************************************)
Range(s) == {s[i] : i \in 1..Len(s)}

Count(s, x) == Cardinality({i \in 1..Len(s) : s[i] = x})

Targets == Range(config.serverUrls)

Slots == 1..MaxOverlap

Alive == exitCode = <<>>

FreeSlot == [id |-> 0, startup |-> FALSE, checks |-> <<>>]

InFlight(c) == cycles[c].id > 0

(***************************************************************************)
(* src/config.js                                                           *)
(***************************************************************************)
\* the lists config.serverUrls is drawn from: the first n URLs of the pool,
\* and a list holding a string that is no URL
ServerUrlLists ==
  {SubSeq(UrlPool, 1, n) : n \in 0..MaxTargets} \cup {<<UrlPool[1], NotAUrl>>}

\* config.webhookUrl: the URL, or "" when LARK_WEBHOOK_URL is not set
WebhookUrls == {"https://open.feishu.cn/hook", ""}

Configs ==
  [webhookUrl : WebhookUrls,
   serverUrls : ServerUrlLists,
   retryAttempts : 1..MaxRetry,
   retryDelay : RetryDelays,
   successStatusCodes : AllowSets,
   sendRecoveryNotifications : BOOLEAN]

\* the characters the text of RETRY_ATTEMPTS is made of: a sign, digits, and
\* a character that is neither
EnvChars == {"-", "0", "1", "2", "3", "a"}

DigitValue(ch) ==
  CASE ch = "0" -> 0 [] ch = "1" -> 1 [] ch = "2" -> 2 [] ch = "3" -> 3 [] OTHER -> -1

IsDigit(ch) == DigitValue(ch) >= 0

\* the number of digits text starts with
RECURSIVE LeadingDigits(_)
LeadingDigits(text) ==
  IF text = <<>> \/ ~IsDigit(Head(text)) THEN 0 ELSE 1 + LeadingDigits(Tail(text))

\* the value of a run of decimal digits
RECURSIVE DecimalValue(_)
DecimalValue(digits) ==
  IF digits = <<>> THEN 0
  ELSE 10 * DecimalValue(SubSeq(digits, 1, Len(digits) - 1))
       + DigitValue(digits[Len(digits)])

\* parseInt(text): an optional sign, then the longest run of digits; what
\* follows the digits is ignored, and text without a digit there gives NaN
\* (so does an unset variable, which is the empty text here)
parseInt(text) ==
  LET negative == text # <<>> /\ Head(text) = "-"
      body == IF negative THEN Tail(text) ELSE text
      n == LeadingDigits(body)
      magnitude == DecimalValue(SubSeq(body, 1, n))
  IN IF n = 0 THEN [isNaN |-> TRUE, value |-> 0]
     ELSE [isNaN |-> FALSE, value |-> IF negative THEN -magnitude ELSE magnitude]

DefaultRetryAttempts == 3

\* parseInt(process.env.RETRY_ATTEMPTS) || 3: NaN and 0 are falsy
RetryAttemptsOf(text) ==
  LET parsed == parseInt(text) IN
  IF parsed.isNaN \/ parsed.value = 0 THEN DefaultRetryAttempts ELSE parsed.value

\* the texts of RETRY_ATTEMPTS, of up to two characters, that give a retry
\* count within the bound of the model
RetryEnvs ==
  {text \in {<<>>} \cup {<<a>> : a \in EnvChars}
             \cup {<<a, b>> : a \in EnvChars, b \in EnvChars} :
     /\ RetryAttemptsOf(text) <= MaxRetry
     /\ RetryAttemptsOf(text) >= -MaxRetry}

\* the configurations with config.retryAttempts as config.js computes it from
\* the environment
EnvConfigs ==
  {[cfg EXCEPT !.retryAttempts = RetryAttemptsOf(text)] :
     cfg \in Configs, text \in RetryEnvs}

\* new URL(url) does not throw
IsValidUrl(url) == url.scheme # ""

\* the errors validateConfig pushes for the URLs from index i on
RECURSIVE UrlErrors(_)
UrlErrors(i) ==
  IF i > Len(config.serverUrls) THEN <<>>
  ELSE (IF IsValidUrl(config.serverUrls[i]) THEN <<>>
        ELSE <<(<<"Invalid URL at index", i - 1>>)>>) \o UrlErrors(i + 1)

\* ValidationErrors without the test of config.webhookUrl
ValidationErrorsNoWebhook ==
  (IF Len(config.serverUrls) = 0
     THEN <<(<<"At least one server URL must be configured">>)>> ELSE <<>>)
  \o UrlErrors(1)

\* validateConfig().errors
ValidationErrors ==
  (IF config.webhookUrl = ""
     THEN <<(<<"LARK_WEBHOOK_URL environment variable is required">>)>>
     ELSE <<>>)
  \o
  (IF Len(config.serverUrls) = 0
     THEN <<(<<"At least one server URL must be configured">>)>> ELSE <<>>)
  \o UrlErrors(1)

\* validateConfig().isValid
validateConfig == Len(ValidationErrors) = 0

(***************************************************************************)
(* The state after `new ServerMonitoringBot()`, for every configuration.   *)
(***************************************************************************)
Init ==
  /\ config \in Configs
  /\ serverStatus = <<>>
  /\ isRunning = FALSE
  /\ cronJob = "null"
  /\ exitCode = <<>>
  /\ startPc = "new"
  /\ cycles = [c \in Slots |-> FreeSlot]
  /\ cyclesStarted = 0
  /\ summary = <<>>
  /\ history = <<>>
  /\ notified = <<>>

(***************************************************************************)
(* makeHttpRequest                                                         *)
(***************************************************************************)
\* the loop condition of makeHttpRequest
MayAttempt(attempt) == attempt <= config.retryAttempts

\* IsLastAttempt that is one attempt late
IsLastAttemptOffByOne(attempt) == attempt = config.retryAttempts + 1

\* the test that ends the retries of makeHttpRequest
IsLastAttempt(attempt) == attempt = config.retryAttempts

\* RetryDelayAfter with the same delay before every retry
RetryDelayConstant(attempt) == config.retryDelay

\* the argument of sleep() after the failure of attempt `attempt`
RetryDelayAfter(attempt) == config.retryDelay * attempt

\* FailureReason without the message of the underlying error
FailureReasonNoMessage(message) ==
  <<"Request failed after", config.retryAttempts, "attempts:", "">>

\* the message of the Error makeHttpRequest throws
FailureReason(message) ==
  <<"Request failed after", config.retryAttempts, "attempts:", message>>

\* Date.now() - startTime: some number of milliseconds
Elapsed == <<"ms">>

\* the value makeHttpRequest returns
Response(status) == [status |-> status, responseTime |-> Elapsed]

(***************************************************************************)
(* checkServerHealth and handleStatusChange                                *)
(***************************************************************************)
\* IsSuccessStatus with a fixed range of codes in place of the configured set
IsSuccessStatusBelow400(status) == status >= 200 /\ status < 400

\* config.successStatusCodes.includes(response.status)
IsSuccessStatus(status) == status \in config.successStatusCodes

\* InitialStatus of a server that is taken to be down until checked
InitialStatusDown == [isUp |-> FALSE, lastCheck |-> Null, consecutiveFailures |-> 0]

\* the record start() puts in the store for every url
InitialStatus == [isUp |-> TRUE, lastCheck |-> Null, consecutiveFailures |-> 0]

\* the initial value of currentStatus
InitialCurrentStatus(now) ==
  [isUp |-> FALSE, lastCheck |-> now, consecutiveFailures |-> 0, error |-> Null]

\* ResponseStatus that counts only transport failures: a response outside
\* the allow-set leaves consecutiveFailures as it was
ResponseStatusNoCount(previousStatus, response, now) ==
  LET isUp == IsSuccessStatus(response.status) IN
  [isUp |-> isUp,
   lastCheck |-> now,
   consecutiveFailures |->
     IF isUp THEN 0 ELSE previousStatus.consecutiveFailures,
   statusCode |-> response.status,
   responseTime |-> response.responseTime,
   error |-> Null]

\* ResponseStatus that describes a status code outside the allow-set in the
\* error field
ResponseStatusErrorOnDown(previousStatus, response, now) ==
  LET isUp == IsSuccessStatus(response.status) IN
  [isUp |-> isUp,
   lastCheck |-> now,
   consecutiveFailures |->
     IF isUp THEN 0 ELSE previousStatus.consecutiveFailures + 1,
   statusCode |-> response.status,
   responseTime |-> response.responseTime,
   error |-> IF isUp THEN Null ELSE <<"Unexpected status code", response.status>>]

\* currentStatus after a response
ResponseStatus(previousStatus, response, now) ==
  LET isUp == IsSuccessStatus(response.status) IN
  [isUp |-> isUp,
   lastCheck |-> now,
   consecutiveFailures |->
     IF isUp THEN 0 ELSE previousStatus.consecutiveFailures + 1,
   statusCode |-> response.status,
   responseTime |-> response.responseTime,
   error |-> Null]

\* ErrorStatus that leaves the count of failures as it was
ErrorStatusNoCount(previousStatus, message, now) ==
  [isUp |-> FALSE,
   lastCheck |-> now,
   consecutiveFailures |-> previousStatus.consecutiveFailures,
   error |-> message]

\* currentStatus in the catch branch
ErrorStatus(previousStatus, message, now) ==
  [isUp |-> FALSE,
   lastCheck |-> now,
   consecutiveFailures |-> previousStatus.consecutiveFailures + 1,
   error |-> message]

\* WentDown that holds for every down check, whatever the previous status
WentDownWheneverDown(previousStatus, currentStatus) == ~currentStatus.isUp

\* "Server went down"
WentDown(previousStatus, currentStatus) ==
  previousStatus.isUp /\ ~currentStatus.isUp

\* Recovered without the test of config.sendRecoveryNotifications
RecoveredIgnoringConfig(previousStatus, currentStatus) ==
  ~previousStatus.isUp /\ currentStatus.isUp

\* "Server recovered"
Recovered(previousStatus, currentStatus) ==
  ~previousStatus.isUp /\ currentStatus.isUp /\ config.sendRecoveryNotifications

\* handleStatusChange from its second test on: the check after it
RecoveryStep(check) ==
  IF Recovered(check.previousStatus, check.currentStatus)
    THEN [check EXCEPT !.pc = "sendRecoveryAlert",
                       !.posts = Append(@, "recovery notification")]
    ELSE [check EXCEPT !.pc = "done"]

\* handleStatusChange that, with recovery notifications disabled, alerts on
\* the first change to down only, as if the alert were re-armed by the
\* recovery notification
handleStatusChangeFromLastAlert(check) ==
  IF WentDown(check.previousStatus, check.currentStatus)
       /\ (config.sendRecoveryNotifications \/ check.previousStatus.lastCheck = Null)
    THEN [check EXCEPT !.pc = "sendDownAlert",
                       !.posts = Append(@, "DOWN alert")]
    ELSE RecoveryStep(check)

\* handleStatusChange from its start: the check after it
handleStatusChange(check) ==
  IF WentDown(check.previousStatus, check.currentStatus)
    THEN [check EXCEPT !.pc = "sendDownAlert",
                       !.posts = Append(@, "DOWN alert")]
    ELSE RecoveryStep(check)

\* the check as checkServerHealth and makeHttpRequest leave it at their
\* first await: the previous status read, attempt 1 in flight.
\* transportFailures counts the attempts that ended in a transport-level
\* failure, lastError is the message of the failure that ended the probe
\* (history fields), completed the ordinal of the check's write among the
\* writes to the record of its url, 0 before it (history field)
NewCheck(previousStatus, now) ==
  [pc |-> "request",
   previousStatus |-> previousStatus,
   currentStatus |-> InitialCurrentStatus(now),
   attempt |-> 1,
   delays |-> <<>>,
   transportFailures |-> 0,
   lastError |-> "",
   completed |-> 0,
   result |-> <<"pending">>,
   posts |-> <<>>,
   delivery |-> "none"]

\* the message of the TypeError of `response.status` when makeHttpRequest
\* returned undefined
UndefinedResponse == <<"Cannot read properties of undefined (reading 'status')">>

\* the validateStatus of axios when none is given: only 2xx resolves
ValidateStatusDefault(status) == status >= 200 /\ status < 300

\* validateStatus: () => true -- axios.get resolves for every status code
ValidateStatus(status) == TRUE

\* a try without a catch: nothing is caught
CatchesNothing == FALSE

\* the try/catch of checkServerHealth catches what makeHttpRequest throws
CatchesProbeError == TRUE

\* sendWebhookMessage without its catch: what axios.post throws goes on
CatchesNoWebhookError == FALSE

\* the try/catch of sendWebhookMessage catches what axios.post throws
CatchesWebhookError == TRUE

\* WriteStatus that sets the record under a rewritten form of the url
WriteStatusUnderOtherKey(c, url, check, currentStatus) ==
  LET after == handleStatusChange([check EXCEPT !.currentStatus = currentStatus])
      key == Url(url.scheme, "normalised")
  IN /\ serverStatus' =
          [u \in DOMAIN serverStatus \cup {key} |->
            IF u = key THEN currentStatus ELSE serverStatus[u]]
     /\ history' = [history EXCEPT ![url] = Append(@, currentStatus.isUp)]
     /\ cycles' = [cycles EXCEPT ![c].checks[url] = after]
     /\ notified' = [notified EXCEPT ![url] = @ \cup Range(after.posts)]

\* WriteStatus that lets the cycle that started last win: a check leaves the
\* record alone if a cycle started after its own has written it
WriteStatusByStartOrder(c, url, check, currentStatus) ==
  LET after == handleStatusChange([check EXCEPT !.currentStatus = currentStatus,
                                                !.completed = Len(history[url]) + 1])
      overtaken == \E d \in Slots : /\ cycles[d].id > cycles[c].id
                                    /\ cycles[d].checks[url].pc # "request"
  IN /\ serverStatus' =
          IF overtaken THEN serverStatus
          ELSE [serverStatus EXCEPT ![url] = currentStatus]
     /\ history' = [history EXCEPT ![url] = Append(@, currentStatus.isUp)]
     /\ cycles' = [cycles EXCEPT ![c].checks[url] = after]
     /\ notified' = [notified EXCEPT ![url] = @ \cup Range(after.posts)]

\* lines 170-172 of checkServerHealth: the store is updated, then
\* handleStatusChange runs up to its first await
WriteStatus(c, url, check, currentStatus) ==
  LET after == handleStatusChange([check EXCEPT !.currentStatus = currentStatus,
                                                !.completed = Len(history[url]) + 1])
  IN /\ serverStatus' = [serverStatus EXCEPT ![url] = currentStatus]
     /\ history' = [history EXCEPT ![url] = Append(@, currentStatus.isUp)]
     /\ cycles' = [cycles EXCEPT ![c].checks[url] = after]
     /\ notified' = [notified EXCEPT ![url] = @ \cup Range(after.posts)]

\* an exception leaves checkServerHealth: its promise is rejected
Rejects(c, url, check) ==
  /\ cycles' = [cycles EXCEPT ![c].checks[url] = [check EXCEPT !.pc = "rejected"]]
  /\ UNCHANGED <<serverStatus, history, notified>>

\* an Error with this message is thrown inside the try of checkServerHealth
ProbeThrows(c, url, check, message) ==
  IF CatchesProbeError
    THEN WriteStatus(c, url, check,
           ErrorStatus(check.previousStatus, message, Date(cycles[c].id)))
    ELSE Rejects(c, url, check)

\* the catch block of makeHttpRequest. On the last attempt it throws.
\* Otherwise it sleeps and the loop goes round: the next attempt is started
\* (the sleep touches nothing but the probe's own state, so the step runs to
\* the await of the next axios.get); a loop that ends instead returns
\* undefined, and `response.status` throws
AttemptFailed(c, url, check, message) ==
  IF IsLastAttempt(check.attempt)
    THEN ProbeThrows(c, url,
           [check EXCEPT !.lastError = message,
                         !.result = <<"threw", FailureReason(message)>>],
           FailureReason(message))
    ELSE LET slept ==
               [check EXCEPT !.delays = Append(@, RetryDelayAfter(check.attempt))]
         IN IF MayAttempt(check.attempt + 1)
              THEN /\ cycles' = [cycles EXCEPT ![c].checks[url] =
                                   [slept EXCEPT !.attempt = @ + 1]]
                   /\ UNCHANGED <<serverStatus, history, notified>>
              ELSE ProbeThrows(c, url,
                     [slept EXCEPT !.result = <<"returned undefined">>],
                     UndefinedResponse)

(***************************************************************************)
(* performHealthCheck                                                      *)
(***************************************************************************)
\* the free slot a new performHealthCheck invocation is put in
NextSlot == CHOOSE c \in Slots : ~InFlight(c) /\ \A d \in Slots : d < c => InFlight(d)

\* a check whose makeHttpRequest finds its loop condition false at once: no
\* attempt is made, makeHttpRequest returns undefined, `response.status`
\* throws and checkServerHealth runs on through its catch to the await in
\* handleStatusChange or to its end. ordinal is the ordinal of its write
CheckWithoutAttempt(previousStatus, now, ordinal) ==
  LET check == [NewCheck(previousStatus, now) EXCEPT
                  !.result = <<"returned undefined">>]
  IN IF CatchesProbeError
       THEN handleStatusChange(
              [check EXCEPT
                 !.currentStatus = ErrorStatus(previousStatus, UndefinedResponse, now),
                 !.completed = ordinal])
       ELSE [check EXCEPT !.pc = "rejected"]

\* a check as it is when the run that called checkServerHealth ends
FirstSuspension(previousStatus, now, ordinal) ==
  IF MayAttempt(1)
    THEN NewCheck(previousStatus, now)
    ELSE CheckWithoutAttempt(previousStatus, now, ordinal)

\* performHealthCheck up to its await: checkServerHealth is called for every
\* url, each call reads the previous status (store, with the classifications
\* hist and the alerts notif) and starts its first attempt; a check that
\* makes no attempt has written its record when the run ends
BeginCycle(c, startup, store, hist, notif) ==
  LET now == Date(cyclesStarted + 1)
      checks == [url \in Targets |->
                  FirstSuspension(store[url], now, Len(hist[url]) + 1)]
      wrote(url) == checks[url].pc \notin {"request", "rejected"}
  IN /\ cyclesStarted' = cyclesStarted + 1
     /\ cycles' = [cycles EXCEPT ![c] =
          [id |-> cyclesStarted + 1, startup |-> startup, checks |-> checks]]
     /\ serverStatus' =
          [url \in Targets |->
            IF wrote(url) THEN checks[url].currentStatus ELSE store[url]]
     /\ history' =
          [url \in Targets |->
            IF wrote(url) THEN Append(hist[url], checks[url].currentStatus.isUp)
            ELSE hist[url]]
     /\ notified' = [url \in Targets |-> notif[url] \cup Range(checks[url].posts)]

\* Promise.allSettled(checkPromises) has resolved
AllSettled(c) ==
  \A url \in Targets : cycles[c].checks[url].pc \in {"done", "rejected"}

\* what Promise.allSettled resolves to
Results(c) ==
  [i \in 1..Len(config.serverUrls) |->
    LET check == cycles[c].checks[config.serverUrls[i]] IN
    IF check.pc = "rejected"
      THEN [status |-> "rejected", value |-> Null]
      ELSE [status |-> "fulfilled", value |-> check.currentStatus]]

\* the test of the forEach of performHealthCheck
CountsAsUp(result) == result.status = "fulfilled" /\ result.value.isUp

\* upCount of the summary
UpCount(results) == Cardinality({i \in DOMAIN results : CountsAsUp(results[i])})

\* DownCount that counts the rejected results only
DownCountRejectedOnly(results) ==
  Cardinality({i \in DOMAIN results : results[i].status = "rejected"})

\* downCount of the summary
DownCount(results) == Cardinality({i \in DOMAIN results : ~CountsAsUp(results[i])})

(***************************************************************************)
(* Actions.                                                                *)
(***************************************************************************)
\* bot.start() up to `await this.performHealthCheck()`
Start ==
  /\ Alive
  /\ startPc = "new"
  /\ IF ~validateConfig
       THEN /\ exitCode' = <<1>>
            /\ UNCHANGED <<config, serverStatus, isRunning, cronJob, startPc,
                           cycles, cyclesStarted, summary, history, notified>>
       ELSE /\ cronJob' = "started"
            /\ BeginCycle(1, TRUE,
                 [url \in Targets |-> InitialStatus],
                 [url \in Targets |-> <<>>],
                 [url \in Targets |-> {}])
            /\ startPc' = "initialCheck"
            /\ UNCHANGED <<config, isRunning, exitCode, summary>>

\* Tick of a scheduler that skips a tick while a cycle is in flight
TickSkippedWhileBusy ==
  /\ Alive
  /\ cronJob = "started"
  /\ cyclesStarted < MaxCycles
  /\ \A c \in Slots : ~InFlight(c)
  /\ BeginCycle(NextSlot, FALSE, serverStatus, history, notified)
  /\ UNCHANGED <<config, isRunning, cronJob, exitCode, startPc, summary>>

\* the cron callback: a scheduled tick calls performHealthCheck
Tick ==
  /\ Alive
  /\ cronJob = "started"
  /\ cyclesStarted < MaxCycles
  /\ \E c \in Slots : ~InFlight(c)
  /\ BeginCycle(NextSlot, FALSE, serverStatus, history, notified)
  /\ UNCHANGED <<config, isRunning, cronJob, exitCode, startPc, summary>>

\* AttemptResponds of a cycle that awaits the check of one url before it
\* calls the check of the next: a response comes only once the checks of the
\* urls listed before this one have ended
AttemptRespondsInTurn(c, url, status) ==
  /\ Alive
  /\ InFlight(c)
  /\ cycles[c].checks[url].pc = "request"
  /\ \A i \in 1..Len(config.serverUrls) :
       (\E j \in (i + 1)..Len(config.serverUrls) : config.serverUrls[j] = url) =>
         cycles[c].checks[config.serverUrls[i]].pc = "done"
  /\ LET check == cycles[c].checks[url]
         response == Response(status)
     IN WriteStatus(c, url, [check EXCEPT !.result = <<"returned", response>>],
          ResponseStatus(check.previousStatus, response, Date(cycles[c].id)))
  /\ UNCHANGED <<config, isRunning, cronJob, exitCode, startPc, cyclesStarted,
                 summary>>

\* axios.get receives an HTTP response: it resolves (it would reject for a
\* status validateStatus refuses), makeHttpRequest returns, and
\* checkServerHealth runs on to the await in handleStatusChange or to its end
AttemptResponds(c, url, status) ==
  /\ Alive
  /\ InFlight(c)
  /\ cycles[c].checks[url].pc = "request"
  /\ LET check == cycles[c].checks[url]
         response == Response(status)
     IN IF ValidateStatus(status)
          THEN WriteStatus(c, url, [check EXCEPT !.result = <<"returned", response>>],
                 ResponseStatus(check.previousStatus, response, Date(cycles[c].id)))
          ELSE AttemptFailed(c, url, check, "Request failed with status code")
  /\ UNCHANGED <<config, isRunning, cronJob, exitCode, startPc, cyclesStarted,
                 summary>>

\* axios.get rejects with a transport-level failure
AttemptFails(c, url, message) ==
  /\ Alive
  /\ InFlight(c)
  /\ cycles[c].checks[url].pc = "request"
  /\ AttemptFailed(c, url,
       [cycles[c].checks[url] EXCEPT !.transportFailures = @ + 1], message)
  /\ UNCHANGED <<config, isRunning, cronJob, exitCode, startPc, cyclesStarted,
                 summary>>

\* what sendWebhookMessage logs for an outcome of axios.post
DeliveryLog(outcome) ==
  CASE outcome = "http200" -> "Successfully sent"
    [] outcome = "httpOther" -> "Failed to send"
    [] OTHER -> "Error sending"

\* axios.post ends: sendWebhookMessage logs and returns, the alert function
\* returns, and handleStatusChange and checkServerHealth run on
WebhookEnds(c, url, outcome) ==
  /\ Alive
  /\ InFlight(c)
  /\ cycles[c].checks[url].pc \in {"sendDownAlert", "sendRecoveryAlert"}
  /\ LET check == cycles[c].checks[url]
         logged == [check EXCEPT !.delivery = DeliveryLog(outcome)]
         after ==
           IF outcome = "throws" /\ ~CatchesWebhookError
             THEN [check EXCEPT !.pc = "rejected"]
             ELSE IF check.pc = "sendDownAlert" THEN RecoveryStep(logged)
             ELSE [logged EXCEPT !.pc = "done"]
     IN /\ cycles' = [cycles EXCEPT ![c].checks[url] = after]
        /\ notified' = [notified EXCEPT ![url] = @ \cup Range(after.posts)]
  /\ UNCHANGED <<config, serverStatus, isRunning, cronJob, exitCode, startPc,
                 cyclesStarted, summary, history>>

\* StartContinues that sets the flag only if the initial check found no
\* target down
StartContinuesOnlyIfUp(results) ==
  /\ isRunning' = (DownCount(results) = 0)
  /\ startPc' = "done"

\* start() after `await this.performHealthCheck()`, whose results it does
\* not see: it sets isRunning and returns
StartContinues(results) ==
  /\ isRunning' = TRUE
  /\ startPc' = "done"

\* Promise.allSettled resolves: performHealthCheck counts and logs the
\* summary; after the initial check, start() sets isRunning
Summarise(c) ==
  /\ Alive
  /\ InFlight(c)
  /\ AllSettled(c)
  /\ summary' = <<[upCount |-> UpCount(Results(c)),
                   downCount |-> DownCount(Results(c))]>>
  /\ cycles' = [cycles EXCEPT ![c] = FreeSlot]
  /\ IF cycles[c].startup
       THEN StartContinues(Results(c))
       ELSE UNCHANGED <<isRunning, startPc>>
  /\ UNCHANGED <<config, serverStatus, cronJob, exitCode, cyclesStarted, history,
                 notified>>

\* stop that clears the flag and leaves the scheduler as it is
stopKeepsScheduler ==
  /\ cronJob' = cronJob
  /\ isRunning' = FALSE

\* bot.stop()
stop ==
  /\ cronJob' = IF cronJob # "null" THEN "stopped" ELSE cronJob
  /\ isRunning' = FALSE

\* the event loop is running: the main module has run to its end, and with
\* it bot.start() up to its first await. The handlers of process events are
\* called from the event loop only
EventLoopRuns == startPc # "new"

\* the SIGINT and SIGTERM handlers
Signal ==
  /\ Alive
  /\ EventLoopRuns
  /\ stop
  /\ exitCode' = <<0>>
  /\ UNCHANGED <<config, serverStatus, startPc, cycles, cyclesStarted, summary,
                 history, notified>>

\* Fatal that exits without calling bot.stop()
FatalWithoutStop ==
  /\ Alive
  /\ EventLoopRuns
  /\ exitCode' = <<1>>
  /\ UNCHANGED <<config, serverStatus, isRunning, cronJob, startPc, cycles,
                 cyclesStarted, summary, history, notified>>

\* the uncaughtException and unhandledRejection handlers: an exception that
\* nothing catches, or a rejection that nothing handles, is raised somewhere
\* in the process
Fatal ==
  /\ Alive
  /\ EventLoopRuns
  /\ stop
  /\ exitCode' = <<1>>
  /\ UNCHANGED <<config, serverStatus, startPc, cycles, cyclesStarted, summary,
                 history, notified>>

Next ==
  \/ Start
  \/ Tick
  \/ \E c \in Slots : \E url \in Targets : \E status \in StatusCodes :
       AttemptResponds(c, url, status)
  \/ \E c \in Slots : \E url \in Targets : \E message \in TransportErrors :
       AttemptFails(c, url, message)
  \/ \E c \in Slots : \E url \in Targets : \E outcome \in WebhookOutcomes :
       WebhookEnds(c, url, outcome)
  \/ \E c \in Slots : Summarise(c)
  \/ Signal
  \/ Fatal

\* the program: ticks may arrive while a cycle is in flight
Spec == Init /\ [][Next]_vars

\* a scheduled tick that finds no cycle in flight
TickSeq ==
  /\ \A c \in Slots : ~InFlight(c)
  /\ Tick

NextSeq ==
  \/ Start
  \/ TickSeq
  \/ \E c \in Slots : \E url \in Targets : \E status \in StatusCodes :
       AttemptResponds(c, url, status)
  \/ \E c \in Slots : \E url \in Targets : \E message \in TransportErrors :
       AttemptFails(c, url, message)
  \/ \E c \in Slots : \E url \in Targets : \E outcome \in WebhookOutcomes :
       WebhookEnds(c, url, outcome)
  \/ \E c \in Slots : Summarise(c)
  \/ Signal
  \/ Fatal

\* the executions in which the cycles run one after another
SeqSpec == Init /\ [][NextSeq]_vars

\* the configurations with one server URL, and the ones start() rejects
OneTargetInit ==
  /\ Init
  /\ validateConfig => Len(config.serverUrls) = 1

\* the executions with one target whose cycles run one after another
OneTargetSeqSpec == OneTargetInit /\ [][NextSeq]_vars

\* the executions with one target: ticks may arrive while a cycle is in flight
OneTargetSpec == OneTargetInit /\ [][Next]_vars

\* the state after construction with one target, or a configuration start()
\* rejects, and the retry count read from the environment
RetryEnvInit ==
  /\ config \in EnvConfigs
  /\ validateConfig => Len(config.serverUrls) = 1
  /\ serverStatus = <<>>
  /\ isRunning = FALSE
  /\ cronJob = "null"
  /\ exitCode = <<>>
  /\ startPc = "new"
  /\ cycles = [c \in Slots |-> FreeSlot]
  /\ cyclesStarted = 0
  /\ summary = <<>>
  /\ history = <<>>
  /\ notified = <<>>

\* the executions with one target and every retry count the environment can
\* give, cycles run one after another
RetryEnvSpec == RetryEnvInit /\ [][NextSeq]_vars

\* the steps of a process that no signal and no uncaught error ends, with
\* the cycles run one after another
NextLive ==
  \/ Start
  \/ TickSeq
  \/ \E c \in Slots : \E url \in Targets : \E status \in StatusCodes :
       AttemptResponds(c, url, status)
  \/ \E c \in Slots : \E url \in Targets : \E message \in TransportErrors :
       AttemptFails(c, url, message)
  \/ \E c \in Slots : \E url \in Targets : \E outcome \in WebhookOutcomes :
       WebhookEnds(c, url, outcome)
  \/ \E c \in Slots : Summarise(c)

\* the attempt in flight of the check of cycle c for the i-th url of the pool
\* ends, with a response or with a failure (its timeout at the latest)
AttemptEnds(c, i) ==
  /\ UrlPool[i] \in Targets
  /\ \/ \E status \in StatusCodes : AttemptResponds(c, UrlPool[i], status)
     \/ \E message \in TransportErrors : AttemptFails(c, UrlPool[i], message)

\* the POST in flight of that check ends, with a response or with a failure
\* (its timeout of 5000 ms at the latest)
PostEnds(c, i) ==
  /\ UrlPool[i] \in Targets
  /\ \E outcome \in WebhookOutcomes : WebhookEnds(c, UrlPool[i], outcome)

\* every HTTP attempt ends and every webhook POST ends; the continuation of
\* a settled Promise.allSettled is run by the event loop
EveryRequestEnds ==
  \A c \in Slots :
    /\ WF_vars(Summarise(c))
    /\ \A i \in 1..MaxTargets :
         WF_vars(AttemptEnds(c, i)) /\ WF_vars(PostEnds(c, i))

\* the executions with one target and cycles run one after another in which
\* the process is not ended from outside and every request ends
OneTargetLiveSpec == OneTargetInit /\ [][NextLive]_vars /\ EveryRequestEnds

(***************************************************************************)
(* What the properties below speak of.                                     *)
(***************************************************************************)
\* the checks of the cycles in flight
Checks == {<<c, url>> : c \in {d \in Slots : InFlight(d)}, url \in Targets}

CheckOf(k) == cycles[k[1]].checks[k[2]]

\* the check has written its record (or was rejected)
Written(check) == check.pc # "request"

\* number of trailing FALSE entries of a sequence of classifications
RECURSIVE TrailingDown(_)
TrailingDown(h) ==
  IF h = <<>> \/ h[Len(h)] THEN 0 ELSE 1 + TrailingDown(SubSeq(h, 1, Len(h) - 1))

\* the alerts of one kind that url's checks post in a step: the posts in the
\* next state of the cycles that are in flight in both states
NewPosts(url, kind) ==
  LET gain(c) ==
        IF InFlight(c) /\ cycles'[c].id = cycles[c].id
          THEN Count(cycles'[c].checks[url].posts, kind)
               - Count(cycles[c].checks[url].posts, kind)
          ELSE 0
      sum[n \in 0..MaxOverlap] == IF n = 0 THEN 0 ELSE gain(n) + sum[n - 1]
  IN sum[MaxOverlap]

\* the stored classification of url
StoredUp(url) == serverStatus[url].isUp

(***************************************************************************)
(* Properties of the executions whose cycles run one after another.        *)
(***************************************************************************)
\* In every cycle the record a check read at the start of the cycle is the
\* stored one until the check writes, and the record it wrote is the stored
\* one from then on: previousStatus is the stored record before the cycle,
\* currentStatus the stored record after it.
StoreFollowsCycle ==
  \A k \in Checks :
    serverStatus[k[2]] =
      IF Written(CheckOf(k)) THEN CheckOf(k).currentStatus
      ELSE CheckOf(k).previousStatus

\* the DOWN alerts a check has posted: one if the stored classification was
\* up before its cycle and is down after it, none otherwise
DownAlertsOfCycle ==
  \A k \in Checks :
    Count(CheckOf(k).posts, "DOWN alert") =
      IF /\ Written(CheckOf(k))
         /\ CheckOf(k).previousStatus.isUp
         /\ ~StoredUp(k[2])
        THEN 1 ELSE 0

\* a step posts a DOWN alert for url exactly if it changes the stored
\* classification of url from up to down, and then it posts one
DownAlertStep ==
  \A url \in DOMAIN serverStatus :
    NewPosts(url, "DOWN alert") =
      IF StoredUp(url) /\ ~serverStatus'[url].isUp THEN 1 ELSE 0

\* C1: with the cycles run one after another, a DOWN alert for a target is
\* generated in a cycle exactly when the stored classification of the target
\* was up before the cycle and is down after it, exactly once in that cycle,
\* and never in a cycle that finds the target already down.
C1_DownAlertOncePerDownTransition ==
  /\ [](StoreFollowsCycle /\ DownAlertsOfCycle)
  /\ [][DownAlertStep]_vars

\* a third cycle finds the target down for the second time in a row and
\* posts nothing, after the first cycle has posted the DOWN alert
C1_Witness ==
  \E k \in Checks :
    /\ cycles[k[1]].id = 3
    /\ CheckOf(k).pc = "done"
    /\ ~CheckOf(k).previousStatus.isUp
    /\ CheckOf(k).currentStatus.consecutiveFailures = 3
    /\ CheckOf(k).posts = <<>>

\* the recovery alerts a check has posted: one if recovery notifications are
\* enabled and the stored classification was down before its cycle and is up
\* after it, none otherwise
RecoveryAlertsOfCycle ==
  \A k \in Checks :
    Count(CheckOf(k).posts, "recovery notification") =
      IF /\ Written(CheckOf(k))
         /\ ~CheckOf(k).previousStatus.isUp
         /\ StoredUp(k[2])
         /\ config.sendRecoveryNotifications
        THEN 1 ELSE 0

\* a step posts a recovery alert for url exactly if recovery notifications
\* are enabled and it changes the stored classification of url from down to
\* up, and then it posts one
RecoveryAlertStep ==
  \A url \in DOMAIN serverStatus :
    NewPosts(url, "recovery notification") =
      IF /\ config.sendRecoveryNotifications
         /\ ~StoredUp(url)
         /\ serverStatus'[url].isUp
        THEN 1 ELSE 0

\* C2: with the cycles run one after another and recovery notifications
\* enabled, exactly one recovery alert is generated in each cycle in which the
\* classification of a target changes from down to up and none in any other
\* cycle; with recovery notifications disabled none is ever generated.
C2_RecoveryAlertOncePerUpTransition ==
  /\ [](StoreFollowsCycle /\ RecoveryAlertsOfCycle)
  /\ [][RecoveryAlertStep]_vars

\* a check that found its target up after a down cycle has posted the one
\* recovery alert and its POST has ended
C2_Witness ==
  \E k \in Checks :
    /\ CheckOf(k).pc = "done"
    /\ ~CheckOf(k).previousStatus.isUp
    /\ CheckOf(k).currentStatus.isUp
    /\ CheckOf(k).posts = <<"recovery notification">>
    /\ CheckOf(k).delivery # "none"

\* C3: with the cycles run one after another, after any number of cycles the
\* stored consecutiveFailures of every target is the length of the run of down
\* classifications that ends at the last cycle (a transport failure and a
\* status code outside the allow-set alike), 0 if the last cycle classified
\* the target up.
C3_ConsecutiveFailuresIsTrailingRun ==
  \A url \in DOMAIN serverStatus :
    /\ serverStatus[url].consecutiveFailures = TrailingDown(history[url])
    /\ (StoredUp(url) => serverStatus[url].consecutiveFailures = 0)

\* a target up in the first cycle, down by a transport failure in the second
\* and down by a status code outside the allow-set in the third
C3_Witness ==
  \E k \in Checks :
    /\ history[k[2]] = <<TRUE, FALSE, FALSE>>
    /\ CheckOf(k).previousStatus.error # Null
    /\ CheckOf(k).result[1] = "returned"
    /\ serverStatus[k[2]].consecutiveFailures = 2

\* C4: the record a check writes has isUp = TRUE exactly if the probe got an
\* HTTP response and the status code of the response is in the configured
\* allow-set; a transport failure and a status code outside the allow-set both
\* give isUp = FALSE.
C4_UpIffAllowListedResponse ==
  \A k \in Checks :
    Written(CheckOf(k)) =>
      /\ CheckOf(k).pc # "rejected"
      /\ serverStatus[k[2]] = CheckOf(k).currentStatus
      /\ CheckOf(k).currentStatus.isUp <=>
           /\ CheckOf(k).result[1] = "returned"
           /\ CheckOf(k).result[2].status \in config.successStatusCodes

\* a 404 under the default allow-set: reachable, and classified down
C4_Witness ==
  \E k \in Checks :
    /\ config.successStatusCodes = DefaultSuccessCodes
    /\ CheckOf(k).result = <<"returned", Response(404)>>
    /\ ~serverStatus[k[2]].isUp
    /\ serverStatus[k[2]].statusCode = 404

\* C5: makeHttpRequest never makes more than retryAttempts attempts; every
\* attempt but the first follows a transport failure of the attempt before it;
\* an attempt that gets an HTTP response (of any status) ends the probe with
\* that status code, and no attempt is in flight after it.
C5_AttemptsBoundedAndResponseEndsProbe ==
  \A k \in Checks :
    LET check == CheckOf(k) IN
    /\ check.attempt >= 1
    /\ check.attempt <= config.retryAttempts
    /\ check.pc = "request" =>
         check.result = <<"pending">> /\ check.attempt = check.transportFailures + 1
    /\ check.result[1] = "returned" =>
         /\ check.attempt = check.transportFailures + 1
         /\ check.pc # "request"
         /\ check.currentStatus.statusCode = check.result[2].status
    /\ check.result[1] = "threw" => check.attempt = check.transportFailures

\* the second of three attempts gets a 500: the probe has ended with it
C5_Witness ==
  \E k \in Checks :
    /\ config.retryAttempts = 3
    /\ CheckOf(k).attempt = 2
    /\ CheckOf(k).transportFailures = 1
    /\ CheckOf(k).result = <<"returned", Response(500)>>
    /\ CheckOf(k).pc = "done"

C7_ExhaustedProbeGivesDownRecord ==
  \A k \in Checks :
    LET check == CheckOf(k) IN
    /\ check.transportFailures = config.retryAttempts <=> check.result[1] = "threw"
    /\ check.result[1] = "threw" =>
         /\ check.result[2] =
              <<"Request failed after", check.attempt, "attempts:", check.lastError>>
         /\ check.lastError \in TransportErrors
         /\ check.pc \in {"sendDownAlert", "done"}
         /\ ~check.currentStatus.isUp
         /\ check.currentStatus.consecutiveFailures =
              check.previousStatus.consecutiveFailures + 1
         /\ check.currentStatus.error = check.result[2]
         /\ serverStatus[k[2]] = check.currentStatus

\* three attempts fail on a target that was down already: the record counts
\* the second failure in a row and carries the reason
C7_Witness ==
  \E k \in Checks :
    /\ config.retryAttempts = 3
    /\ CheckOf(k).result =
         <<"threw", <<"Request failed after", 3, "attempts:", "connect ECONNREFUSED">> >>
    /\ CheckOf(k).previousStatus.consecutiveFailures = 1
    /\ serverStatus[k[2]].consecutiveFailures = 2
    /\ serverStatus[k[2]].error = CheckOf(k).result[2]

\* the targets a cycle in flight has classified up
ClassifiedUp(c) == {url \in Targets : cycles[c].checks[url].currentStatus.isUp}

\* a step that ends a cycle finds every check of the cycle done, and the
\* summary it logs counts the targets the cycle classified up and the rest
SummaryStep ==
  \A c \in Slots :
    InFlight(c) /\ cycles'[c] = FreeSlot =>
      /\ \A url \in Targets : cycles[c].checks[url].pc = "done"
      /\ summary' =
           <<[upCount |-> Cardinality(ClassifiedUp(c)),
              downCount |-> Cardinality(Targets) - Cardinality(ClassifiedUp(c))]>>

\* the summary changes only in a step that ends a cycle
SummaryOnlyAtCycleEnd ==
  summary' # summary => \E c \in Slots : InFlight(c) /\ cycles'[c] = FreeSlot

\* the counts of a summary add up to the number of targets
SummaryCountsEveryTarget ==
  summary # <<>> =>
    summary[1].upCount + summary[1].downCount = Len(config.serverUrls)

\* C8: a cycle logs its summary only after the check of every target has
\* completed, and in every summary upCount + downCount is the number of
\* targets and upCount the number of targets the cycle classified up.
C8_SummaryAfterAllChecks ==
  /\ []SummaryCountsEveryTarget
  /\ [][SummaryStep /\ SummaryOnlyAtCycleEnd]_vars

\* two targets, retryAttempts = 2, the first answers 200 and the second
\* times out twice: the summary of the first cycle is 1 up, 1 down
C8_Witness ==
  /\ config.retryAttempts = 2
  /\ config.serverUrls = SubSeq(UrlPool, 1, 2)
  /\ cyclesStarted = 1
  /\ summary = <<[upCount |-> 1, downCount |-> 1]>>
  /\ serverStatus[UrlPool[1]].isUp
  /\ serverStatus[UrlPool[2]].error =
       <<"Request failed after", 2, "attempts:", "timeout of 10000ms exceeded">>

\* a step of the check of one target leaves the record, the classifications
\* and the checks of every other target as they are
OtherTargetsUntouched ==
  \A k \in Checks :
    cycles'[k[1]].id = cycles[k[1]].id /\ cycles'[k[1]].checks[k[2]] # CheckOf(k) =>
      \A other \in Targets \ {k[2]} :
        /\ serverStatus'[other] = serverStatus[other]
        /\ history'[other] = history[other]
        /\ \A c \in Slots : InFlight(c) /\ cycles'[c].id = cycles[c].id =>
             cycles'[c].checks[other] = cycles[c].checks[other]

\* a step that ends a cycle finds every target probed and classified and its
\* stored record written in that cycle
EveryTargetCheckedInCycle ==
  \A c \in Slots :
    InFlight(c) /\ cycles'[c] = FreeSlot =>
      \A url \in Targets :
        /\ cycles[c].checks[url].result # <<"pending">>
        /\ serverStatus[url] = cycles[c].checks[url].currentStatus
        /\ serverStatus[url].lastCheck = Date(cycles[c].id)

\* every cycle in flight holds a check of every target, none of them rejected
EveryTargetHasCheck ==
  \A c \in Slots :
    InFlight(c) =>
      /\ DOMAIN cycles[c].checks = Targets
      /\ \A url \in Targets : cycles[c].checks[url].pc # "rejected"

\* the process exits with code 1 only from the validation of start() or from
\* the handlers of uncaught errors, which stop the scheduler first; the catch
\* of start() logs and exits with the scheduler as it is
NoThrowToCaller ==
  exitCode' = <<1>> /\ exitCode # <<1>> => startPc = "new" \/ cronJob' = "stopped"

\* C9: within a cycle a probe failure of one target never keeps another
\* target from being probed, classified and having its record replaced in that
\* cycle, every failure ends as a classification, and performHealthCheck never
\* throws to its caller.
C9_FailuresStayWithTheirTarget ==
  /\ []EveryTargetHasCheck
  /\ [][OtherTargetsUntouched /\ EveryTargetCheckedInCycle /\ NoThrowToCaller]_vars

\* one target's probe has thrown and the other target, in the same cycle, is
\* classified up with its record written in that cycle
C9_Witness ==
  \E k \in Checks : \E other \in Targets \ {k[2]} :
    /\ CheckOf(k).result[1] = "threw"
    /\ CheckOf(k).pc = "done"
    /\ cycles[k[1]].checks[other].pc = "done"
    /\ cycles[k[1]].checks[other].result[1] = "returned"
    /\ serverStatus[other].isUp
    /\ serverStatus[other].lastCheck = Date(cycles[k[1]].id)

\* a step in which a webhook POST ends without the success log line leaves
\* the store, the written record, the scheduler and the process as they are,
\* and the check goes on as after a delivered alert
DeliveryFailureStep ==
  \A k \in Checks :
    LET check == CheckOf(k)
        after == cycles'[k[1]].checks[k[2]]
    IN /\ check.pc \in {"sendDownAlert", "sendRecoveryAlert"}
       /\ cycles'[k[1]].id = cycles[k[1]].id
       /\ after # check
       /\ after.delivery # "Successfully sent"
       => /\ after.delivery \in {"Failed to send", "Error sending"}
          /\ after.pc = "done"
          /\ after.currentStatus = check.currentStatus
          /\ after.posts = check.posts
          /\ serverStatus' = serverStatus
          /\ history' = history
          /\ exitCode' = <<>>
          /\ cronJob' = cronJob
          /\ isRunning' = isRunning

\* a cycle whose checks have all ended can log its summary while the process
\* lives, whatever the deliveries of its alerts came to
SettledCycleCanSummarise ==
  \A c \in Slots :
    Alive /\ InFlight(c) /\ (\A url \in Targets : cycles[c].checks[url].pc = "done")
      => ENABLED Summarise(c)

\* a check whose alert was not delivered is done like any other, and the
\* record it wrote is the stored one
FailedDeliveryKeepsRecord ==
  \A k \in Checks :
    CheckOf(k).delivery \in {"Failed to send", "Error sending"} =>
      /\ CheckOf(k).pc = "done"
      /\ serverStatus[k[2]] = CheckOf(k).currentStatus

\* C10: a webhook delivery failure (timeout, network error or non-success
\* response) is never propagated: the record written for the target stays as
\* written, the cycle still produces its summary, the scheduler stays started
\* and the process does not exit.
C10_DeliveryFailureIsSwallowed ==
  /\ [](FailedDeliveryKeepsRecord /\ SettledCycleCanSummarise)
  /\ [][DeliveryFailureStep]_vars

\* the POST of a DOWN alert has thrown: the check is done, its record is the
\* stored one, and the process lives with its scheduler started
C10_Witness ==
  \E k \in Checks :
    /\ CheckOf(k).posts = <<"DOWN alert">>
    /\ CheckOf(k).delivery = "Error sending"
    /\ CheckOf(k).pc = "done"
    /\ serverStatus[k[2]] = CheckOf(k).currentStatus
    /\ Alive
    /\ cronJob = "started"

(***************************************************************************)
(* Lifecycle of the process.                                               *)
(***************************************************************************)
\* the webhook URL is missing, the target list is empty, or some target is
\* not a syntactically valid URL
ConfigRejected ==
  \/ config.webhookUrl = ""
  \/ Len(config.serverUrls) = 0
  \/ \E i \in 1..Len(config.serverUrls) : config.serverUrls[i].scheme = ""

\* the store is not initialised, the scheduler does not exist, no cycle and no
\* probe was ever started, and the bot is not running
NothingStarted ==
  /\ serverStatus = <<>>
  /\ cronJob = "null"
  /\ ~isRunning
  /\ cyclesStarted = 0
  /\ \A c \in Slots : ~InFlight(c)
  /\ summary = <<>>

\* C11: if the configuration fails validation (webhook URL missing, target
\* list empty, or some target not a valid URL), start() ends the process with
\* exit code 1 and nothing else ever happens: the store is never initialised,
\* the scheduler never started, no probe issued, the bot never running.
C11_RejectedConfigExitsWithOne ==
  /\ [](ConfigRejected =>
          /\ NothingStarted
          /\ exitCode \in {<<>>, <<1>>}
          /\ Alive => ENABLED Start)
  /\ [][ConfigRejected => exitCode' = <<1>> /\ NothingStarted']_vars

\* a list whose second entry is no URL: the process has exited with code 1
\* on the error for index 1
C11_Witness ==
  /\ config.webhookUrl # ""
  /\ config.serverUrls = <<UrlPool[1], NotAUrl>>
  /\ ValidationErrors = <<(<<"Invalid URL at index", 1>>)>>
  /\ exitCode = <<1>>
  /\ NothingStarted

\* a step starts a cycle from a scheduled tick
TickCycleStarts ==
  \E c \in Slots : ~InFlight(c) /\ cycles'[c].id > 0 /\ ~cycles'[c].startup

\* C12: after a valid configuration is accepted, no cycle triggered by a
\* scheduled tick starts until the startup cycle has completed.
C12_TickWaitsForStartupCycle ==
  [][TickCycleStarts => startPc = "done"]_vars

\* the startup cycle is in flight
StartupCycleInFlight == \E c \in Slots : InFlight(c) /\ cycles[c].startup

\* the startup cycle was started and has produced its summary
StartupCycleCompleted == cyclesStarted > 0 /\ ~StartupCycleInFlight

\* a startup cycle whose checks have all ended can always complete
StartupCycleCanComplete ==
  \A c \in Slots :
    /\ Alive
    /\ InFlight(c)
    /\ cycles[c].startup
    /\ \A url \in Targets : cycles[c].checks[url].pc = "done"
    => ENABLED Summarise(c)

\* the step that completes the startup cycle sets the flag, and no other
\* step sets it
RunningSetByStartupCycle ==
  /\ StartupCycleInFlight /\ ~StartupCycleInFlight' => isRunning'
  /\ ~isRunning /\ isRunning' => StartupCycleInFlight /\ ~StartupCycleInFlight'

\* C13: isRunning is false until the startup cycle has completed, and while
\* the process lives it is true from the completion of that cycle on,
\* whatever the cycle found (every target down and every delivery failed
\* included) and whatever cycles the ticks started next to it.
C13_RunningAfterStartupCycle ==
  /\ [](isRunning => StartupCycleCompleted)
  /\ [](StartupCycleCompleted /\ Alive => isRunning)
  /\ []StartupCycleCanComplete
  /\ [][RunningSetByStartupCycle]_vars

\* the startup cycle found the target down and has completed while a cycle
\* started by a tick is still in flight: the bot is running
C13_Witness ==
  /\ isRunning
  /\ StartupCycleCompleted
  /\ \E url \in Targets :
       /\ history[url][1] = FALSE
       /\ "DOWN alert" \in notified[url]
  /\ \E c \in Slots : InFlight(c) /\ cycles[c].id = 2

\* a step in which a signal handler runs: the process exits with code 0
SignalHandled == Alive /\ exitCode' = <<0>>

\* the handler stops the scheduler if there is one, clears the flag, and
\* touches neither the store nor the cycles in flight
SignalStep ==
  SignalHandled =>
    /\ cronJob' = IF cronJob = "null" THEN "null" ELSE "stopped"
    /\ ~isRunning'
    /\ cycles' = cycles
    /\ cyclesStarted' = cyclesStarted
    /\ serverStatus' = serverStatus

\* a cycle starts only in a live process; once the process has exited no
\* step is taken at all
NothingAfterExit ==
  /\ cyclesStarted' # cyclesStarted => Alive /\ exitCode' = <<>>
  /\ Alive

\* C14: a SIGINT or SIGTERM can be handled in every state in which the event
\* loop runs (during the startup cycle or while running); its handler stops
\* the scheduler and exits with code 0, and no cycle starts afterwards.
C14_SignalStopsSchedulerAndExitsZero ==
  /\ [](Alive /\ EventLoopRuns => ENABLED Signal)
  /\ [](exitCode = <<0>> => cronJob # "started" /\ ~isRunning)
  /\ [][SignalStep /\ NothingAfterExit]_vars

\* a signal was handled during the startup cycle: the scheduler is stopped,
\* the exit code is 0 and the cycle is where the signal found it
C14_Witness ==
  /\ exitCode = <<0>>
  /\ cronJob = "stopped"
  /\ startPc = "initialCheck"
  /\ StartupCycleInFlight
  /\ cyclesStarted = 1

\* C15: when a termination signal arrives while a cycle is in flight, the
\* cycle is not cancelled: the process does not stop before every target
\* whose probe was outstanding has its record written.
C15_SignalLetsCycleFinish ==
  exitCode = <<0>> => \A k \in Checks : Written(CheckOf(k))

\* a step in which the handler of an uncaught error runs: the process exits
\* with code 1 after start() has accepted the configuration
FatalHandled == Alive /\ EventLoopRuns /\ exitCode' = <<1>>

\* the handler stops the scheduler, clears the flag and starts nothing
FatalStep ==
  FatalHandled =>
    /\ cronJob' = "stopped"
    /\ ~isRunning'
    /\ cycles' = cycles
    /\ cyclesStarted' = cyclesStarted

\* once the exit code is set it stays, and no cycle starts
ExitIsFinal ==
  exitCode # <<>> => exitCode' = exitCode /\ cyclesStarted' = cyclesStarted

\* C16: an uncaught exception or unhandled rejection can be raised in every
\* state in which the event loop runs; its handler stops the scheduler and
\* exits with code 1, no cycle starts after it and the bot is never running
\* again.
C16_FatalStopsSchedulerAndExitsOne ==
  /\ [](Alive /\ EventLoopRuns =>
          ENABLED (Fatal /\ exitCode' = <<1>> /\ cronJob' = "stopped"))
  /\ [](exitCode = <<1>> /\ EventLoopRuns => cronJob = "stopped" /\ ~isRunning)
  /\ [][FatalStep /\ ExitIsFinal]_vars

\* an uncaught error was raised while the bot was running, after its second
\* cycle: the scheduler is stopped, the flag cleared, the exit code 1
C16_Witness ==
  /\ exitCode = <<1>>
  /\ startPc = "done"
  /\ cronJob = "stopped"
  /\ ~isRunning
  /\ cyclesStarted = 2

(***************************************************************************)
(* The status store, with cycles that overlap.                             *)
(***************************************************************************)
\* start() has filled the store
StoreInitialised == startPc # "new"

\* the store holds a record for every configured target and for nothing else
OneRecordPerTarget ==
  IF StoreInitialised
    THEN DOMAIN serverStatus = Targets /\ Cardinality(DOMAIN serverStatus) = Len(config.serverUrls)
    ELSE DOMAIN serverStatus = {}

\* the record of a target no check has written yet is the one it started with
UncheckedRecordIsInitial ==
  \A url \in DOMAIN serverStatus :
    history[url] = <<>> =>
      /\ serverStatus[url].isUp
      /\ serverStatus[url].consecutiveFailures = 0
      /\ serverStatus[url].lastCheck = Null
      /\ DOMAIN serverStatus[url] = {"isUp", "lastCheck", "consecutiveFailures"}

\* no step removes a record, and only the step that fills the store adds one
KeysAreKept ==
  /\ DOMAIN serverStatus \subseteq DOMAIN serverStatus'
  /\ StoreInitialised => DOMAIN serverStatus' = DOMAIN serverStatus

\* C17: from the initialisation of start() on, the store holds exactly one
\* record for each configured target and none under another key, no step (of a
\* cycle, of an overlapping cycle, of a notification, a stop) removes one, and
\* every record starts as isUp = TRUE, consecutiveFailures = 0, lastCheck null.
C17_OneRecordPerTarget ==
  /\ [](OneRecordPerTarget /\ UncheckedRecordIsInitial)
  /\ [][KeysAreKept]_vars

\* two overlapping cycles have both written the record of the target and
\* the process was then stopped by a signal: the store holds that one record
C17_Witness ==
  /\ exitCode = <<0>>
  /\ \A c \in Slots : InFlight(c)
  /\ \A k \in Checks : Written(CheckOf(k))
  /\ \E url \in Targets : DOMAIN serverStatus = {url} /\ Len(history[url]) >= 2

\* a recovery notification was generated for a target only if a DOWN alert
\* was generated for it
RecoveryOnlyAfterDown ==
  \A url \in DOMAIN notified :
    "recovery notification" \in notified[url] => "DOWN alert" \in notified[url]

\* a step that generates a recovery notification for a target finds a DOWN
\* alert generated for it in an earlier step
RecoveryFollowsDownStep ==
  \A url \in DOMAIN notified :
    NewPosts(url, "recovery notification") > 0 => "DOWN alert" \in notified[url]

\* while every check of a target has succeeded nothing is generated for it
NoAlertWhileAlwaysUp ==
  \A url \in DOMAIN notified :
    (\A i \in 1..Len(history[url]) : history[url][i]) =>
      /\ notified[url] = {}
      /\ \A k \in Checks : k[2] = url /\ Written(CheckOf(k)) => CheckOf(k).posts = <<>>

\* C18: no recovery notification is generated for a target unless a DOWN
\* alert was generated for that target earlier, overlapping cycles included;
\* a first check that succeeds generates no notification at all.
C18_RecoveryOnlyAfterDownAlert ==
  /\ [](RecoveryOnlyAfterDown /\ NoAlertWhileAlwaysUp)
  /\ [][RecoveryFollowsDownStep]_vars

\* two cycles overlap; one has generated the recovery notification of a
\* target for which a DOWN alert was generated before
C18_Witness ==
  /\ \A c \in Slots : InFlight(c)
  /\ \E k \in Checks :
       /\ CheckOf(k).posts = <<"recovery notification">>
       /\ "DOWN alert" \in notified[k[2]]
       /\ history[k[2]][1] = TRUE

\* some cycle is in flight
Busy == \E c \in Slots : InFlight(c)

\* a tick that fires while a cycle is in flight starts a cycle (as long as
\* the bounds of the model leave room for one)
TickNotSkipped ==
  /\ Alive
  /\ cronJob = "started"
  /\ Busy
  /\ cyclesStarted < MaxCycles
  /\ \E c \in Slots : ~InFlight(c)
  => ENABLED (Tick /\ cyclesStarted' = cyclesStarted + 1)

\* the cycle a tick starts is under way at once: every check of it has read
\* the stored record and has its first attempt in flight; the cycles that
\* were in flight stay as they are
TickStartsAtOnce ==
  \A c \in Slots :
    ~InFlight(c) /\ cycles'[c].id > 0 /\ ~cycles'[c].startup =>
      /\ \A url \in Targets :
           /\ cycles'[c].checks[url].pc = "request"
           /\ cycles'[c].checks[url].attempt = 1
           /\ cycles'[c].checks[url].previousStatus = serverStatus[url]
      /\ \A d \in Slots \ {c} : cycles'[d] = cycles[d]

\* no cycle waits for another: whatever the other cycles are doing, an
\* attempt in flight can end and a settled cycle can log its summary
NoMutualExclusion ==
  /\ \A k \in Checks :
       Alive /\ CheckOf(k).pc = "request" =>
         ENABLED AttemptResponds(k[1], k[2], 200)
  /\ \A c \in Slots :
       Alive /\ InFlight(c) /\ AllSettled(c) => ENABLED Summarise(c)

\* C19: a scheduled tick that fires while an earlier cycle is still running
\* starts a new cycle at once, which runs concurrently with the earlier one;
\* the tick is neither skipped nor queued and no mutual exclusion holds
\* between the cycles.
C19_TickOverlapsRunningCycle ==
  /\ [](TickNotSkipped /\ NoMutualExclusion)
  /\ [][TickStartsAtOnce]_vars

\* a tick has fired while the startup cycle was retrying: both cycles have
\* an attempt in flight for the same target
C19_Witness ==
  \E c, d \in Slots : \E url \in Targets :
    /\ cycles[c].id = 1
    /\ cycles[d].id = 2
    /\ cycles[c].checks[url].pc = "request"
    /\ cycles[c].checks[url].attempt = 2
    /\ cycles[d].checks[url].pc = "request"

(***************************************************************************)
(* The fields of the records the checks write.                             *)
(***************************************************************************)
\* the targets whose stored record was written by a check
CheckedTargets == {url \in DOMAIN serverStatus : history[url] # <<>>}

HasResponseFields(record) ==
  "statusCode" \in DOMAIN record \/ "responseTime" \in DOMAIN record

HasError(record) == "error" \in DOMAIN record /\ record.error # Null

\* C20 as the specification words it: in every record written by a check,
\* statusCode and responseTime are present only if the record is classified up,
\* and error holds a failure description only if it is classified down.
C20_ResponseFieldsOnlyWhenUp ==
  \A url \in CheckedTargets :
    /\ HasResponseFields(serverStatus[url]) => serverStatus[url].isUp
    /\ HasError(serverStatus[url]) => ~serverStatus[url].isUp

\* the record a check wrote has statusCode and responseTime exactly if its
\* probe returned a response, and a failure description exactly if it did not
FieldsFollowProbe ==
  \A k \in Checks :
    LET check == CheckOf(k)
        record == check.currentStatus
    IN Written(check) =>
         /\ "statusCode" \in DOMAIN record <=> check.result[1] = "returned"
         /\ "responseTime" \in DOMAIN record <=> check.result[1] = "returned"
         /\ check.result[1] = "returned" =>
              /\ record.statusCode = check.result[2].status
              /\ record.responseTime = check.result[2].responseTime
         /\ HasError(record) <=> check.result[1] # "returned"

\* a stored record that is classified up has the response fields and no
\* error; one that has an error is classified down and has no response
\* fields; one that is classified down without an error has the status code
\* that was outside the allow-set
StoredFields ==
  \A url \in CheckedTargets :
    LET record == serverStatus[url] IN
    /\ "statusCode" \in DOMAIN record <=> "responseTime" \in DOMAIN record
    /\ record.isUp =>
         /\ HasResponseFields(record)
         /\ record.statusCode \in config.successStatusCodes
         /\ ~HasError(record)
    /\ HasError(record) => ~record.isUp /\ ~HasResponseFields(record)
    /\ ~record.isUp /\ ~HasError(record) =>
         /\ HasResponseFields(record)
         /\ record.statusCode \notin config.successStatusCodes

\* C20, amended: in every record written by a check, statusCode and
\* responseTime are present exactly if the probe got an HTTP response, whatever
\* its status code (so in every record classified up, and in a record
\* classified down for a status code outside the allow-set), and error holds a
\* failure description exactly if the probe ended without a response; a
\* record with a failure description is always classified down.
C20_ResponseFieldsIffResponse == FieldsFollowProbe /\ StoredFields

\* a 500 under the default allow-set: the stored record is classified down,
\* has statusCode 500 and a response time, and its error is null
C20_Witness ==
  \E url \in CheckedTargets :
    /\ config.successStatusCodes = DefaultSuccessCodes
    /\ ~serverStatus[url].isUp
    /\ serverStatus[url].statusCode = 500
    /\ serverStatus[url].responseTime = Elapsed
    /\ serverStatus[url].error = Null

(***************************************************************************)
(* Alerts and records with cycles that overlap.                            *)
(***************************************************************************)
\* C21: when two cycles overlap on a target (both read its record before
\* either writes) and the target goes from up to down, exactly one DOWN alert
\* is generated for that change of the stored classification: a step
\* generates a DOWN alert for a target only if it changes the stored
\* classification of the target from up to down.
C21_OneDownAlertUnderOverlap ==
  [][\A url \in DOMAIN serverStatus :
       NewPosts(url, "DOWN alert") > 0 => StoredUp(url) /\ ~serverStatus'[url].isUp]_vars

\* the check of cycle c for url ends its probe in this step
ProbeEnds(c, url) ==
  /\ InFlight(c)
  /\ cycles'[c].id = cycles[c].id
  /\ cycles[c].checks[url].pc = "request"
  /\ cycles'[c].checks[url].pc # "request"

\* the step in which a probe ends puts the record its check computed in the
\* store, whole: the fields of the stored record are the fields of that
\* record and no others
WriteReplacesRecord ==
  \A c \in Slots : \A url \in Targets :
    ProbeEnds(c, url) =>
      /\ serverStatus'[url] = cycles'[c].checks[url].currentStatus
      /\ DOMAIN serverStatus'[url] = DOMAIN cycles'[c].checks[url].currentStatus
      /\ cycles'[c].checks[url].completed = Len(history[url]) + 1
      /\ Len(history'[url]) = Len(history[url]) + 1

\* the record of a target changes in no other step
OnlyProbeEndWrites ==
  \A url \in DOMAIN serverStatus :
    serverStatus'[url] # serverStatus[url] => \E c \in Slots : ProbeEnds(c, url)

\* the stored record is the one of the check whose probe ended last, in
\* whatever order the cycles started
LastCompletedIsStored ==
  \A k \in Checks :
    Written(CheckOf(k)) /\ CheckOf(k).completed = Len(history[k[2]]) =>
      serverStatus[k[2]] = CheckOf(k).currentStatus

\* C22: with cycles that overlap, each write to the record of a target
\* replaces the whole record, and the stored record is always the one computed
\* by the check whose probe completed last, by order of completion and not by
\* the order in which the cycles started.
C22_LastCompletedWriteWins ==
  /\ []LastCompletedIsStored
  /\ [][WriteReplacesRecord /\ OnlyProbeEndWrites]_vars

\* the cycle started second answered first with a response; the probe of the
\* startup cycle failed after it: both checks have ended, and the stored
\* record is the error record of the startup cycle, without a status code
C22_Witness ==
  \E c, d \in Slots : \E url \in Targets :
    /\ cycles[c].id = 1
    /\ cycles[d].id = 2
    /\ cycles[d].checks[url].completed = 1
    /\ cycles[d].checks[url].currentStatus.isUp
    /\ cycles[c].checks[url].completed = 2
    /\ cycles[c].checks[url].pc = "done"
    /\ cycles[d].checks[url].pc = "done"
    /\ serverStatus[url] = cycles[c].checks[url].currentStatus
    /\ serverStatus[url].error # Null
    /\ "statusCode" \notin DOMAIN serverStatus[url]

(***************************************************************************)
(* The checks of one cycle.                                                *)
(***************************************************************************)
\* the step in which the probe of a target ends replaces the record of the
\* target and generates its alert, if the check found a transition, whatever
\* the checks of the other targets are doing
RecordAndAlertAtProbeEnd ==
  \A c \in Slots : \A url \in Targets :
    ProbeEnds(c, url) =>
      LET before == cycles[c].checks[url]
          after == cycles'[c].checks[url]
      IN /\ serverStatus'[url] = after.currentStatus
         /\ after.posts =
              IF before.previousStatus.isUp /\ ~after.currentStatus.isUp
                THEN <<"DOWN alert">>
              ELSE IF /\ ~before.previousStatus.isUp
                      /\ after.currentStatus.isUp
                      /\ config.sendRecoveryNotifications
                THEN <<"recovery notification">>
              ELSE <<>>
         /\ after.pc = "done" <=> after.posts = <<>>

\* a check never waits for the check of another target: its attempt in
\* flight can end with a response or a failure, and its POST in flight can
\* end, in every state of the other checks
ChecksNeverWait ==
  \A k \in Checks :
    Alive =>
      /\ CheckOf(k).pc = "request" =>
           /\ ENABLED AttemptResponds(k[1], k[2], 200)
           /\ ENABLED AttemptFails(k[1], k[2], "connect ECONNREFUSED")
      /\ CheckOf(k).pc \in {"sendDownAlert", "sendRecoveryAlert"} =>
           ENABLED WebhookEnds(k[1], k[2], "http200")

\* only the summary waits: it is logged when every check of the cycle has
\* ended, and not before
OnlySummaryWaits ==
  \A c \in Slots :
    Alive /\ InFlight(c) =>
      (ENABLED Summarise(c) <=> \A url \in Targets : cycles[c].checks[url].pc = "done")

\* C23: within a cycle the record of a target is replaced and its alert
\* generated as soon as the probe of that target ends; a target that is still
\* retrying delays neither the record nor the alert of another target, only
\* the summary of the cycle.
C23_TargetsDoNotWaitForEachOther ==
  /\ [](ChecksNeverWait /\ OnlySummaryWaits)
  /\ [][RecordAndAlertAtProbeEnd]_vars

\* the second target went down and its DOWN alert was delivered while the
\* first target, listed before it, is still retrying: no summary yet
C23_Witness ==
  /\ Len(config.serverUrls) = 2
  /\ cyclesStarted = 1
  /\ summary = <<>>
  /\ \E c \in Slots :
       /\ InFlight(c)
       /\ cycles[c].checks[UrlPool[1]].pc = "request"
       /\ cycles[c].checks[UrlPool[1]].attempt = 2
       /\ cycles[c].checks[UrlPool[2]].pc = "done"
       /\ cycles[c].checks[UrlPool[2]].posts = <<"DOWN alert">>
       /\ cycles[c].checks[UrlPool[2]].delivery = "Successfully sent"
       /\ ~serverStatus[UrlPool[2]].isUp
       /\ serverStatus[UrlPool[1]] = InitialStatus

(***************************************************************************)
(* Termination of the cycles.                                              *)
(***************************************************************************)
\* the attempts a probe has made so far
AttemptsMade(check) ==
  check.transportFailures
  + (IF check.result[1] = "returned" THEN 1 ELSE 0)
  + (IF check.pc = "request" THEN 1 ELSE 0)

\* a probe makes at most retryAttempts attempts and sleeps at most
\* retryAttempts - 1 delays, and a check makes at most one webhook POST
BoundedWork ==
  \A k \in Checks :
    /\ AttemptsMade(CheckOf(k)) <= config.retryAttempts
    /\ Len(CheckOf(k).delays) <= config.retryAttempts - 1
    /\ Len(CheckOf(k).posts) <= 1

\* cycle n is in flight
CycleInFlight(n) == \E c \in Slots : cycles[c].id = n

\* cycle n has produced its summary
CycleSummarised(n) == cyclesStarted >= n /\ ~CycleInFlight(n) /\ summary # <<>>

\* C24: if every HTTP attempt ends and every webhook POST ends, every started
\* cycle eventually produces its summary; each probe ends after at most
\* retryAttempts attempts and at most retryAttempts - 1 delays, and each check
\* after at most one webhook POST.
C24_EveryCycleProducesItsSummary ==
  /\ []BoundedWork
  /\ \A n \in 1..MaxCycles : CycleInFlight(n) ~> CycleSummarised(n)

\* the third cycle has produced its summary after a probe that used all of
\* its three attempts and a check that made its one POST
C24_Witness ==
  /\ config.retryAttempts = 3
  /\ CycleSummarised(3)
  /\ \A c \in Slots : ~InFlight(c)
  /\ \E url \in Targets :
       /\ serverStatus[url].error # Null
       /\ serverStatus[url].lastCheck = Date(3)
       /\ "DOWN alert" \in notified[url]

\* C25: in every reachable state, during and after overlapping cycles
\* included, every stored record has isUp = TRUE exactly if its
\* consecutiveFailures is 0, and consecutiveFailures is never negative; the
\* same holds of every record a check has read or computed.
C25_UpIffNoConsecutiveFailures ==
  /\ \A url \in DOMAIN serverStatus :
       /\ serverStatus[url].consecutiveFailures \in Nat
       /\ serverStatus[url].isUp <=> serverStatus[url].consecutiveFailures = 0
  /\ \A k \in Checks :
       /\ CheckOf(k).previousStatus.consecutiveFailures \in Nat
       /\ CheckOf(k).previousStatus.isUp <=>
            CheckOf(k).previousStatus.consecutiveFailures = 0
       /\ Written(CheckOf(k)) =>
            (CheckOf(k).currentStatus.isUp <=>
               CheckOf(k).currentStatus.consecutiveFailures = 0)

\* two overlapping cycles both read a record with one failure and both
\* failed: the stored record counts 2 failures after three down writes
C25_Witness ==
  \E url \in DOMAIN serverStatus :
    /\ history[url] = <<FALSE, FALSE, FALSE>>
    /\ serverStatus[url].consecutiveFailures = 2
    /\ ~serverStatus[url].isUp
    /\ \A c \in Slots : InFlight(c) /\ Written(cycles[c].checks[url])

(***************************************************************************)
(* Recovery notifications disabled.                                        *)
(***************************************************************************)
\* a check that found its target up after a down record has replaced the
\* record with isUp = TRUE and consecutiveFailures = 0, and has generated
\* nothing
SilentRecoveryIsStored ==
  \A k \in Checks :
    LET check == CheckOf(k) IN
    Written(check) /\ ~check.previousStatus.isUp /\ check.currentStatus.isUp =>
      /\ serverStatus[k[2]] = check.currentStatus
      /\ serverStatus[k[2]].isUp
      /\ serverStatus[k[2]].consecutiveFailures = 0
      /\ check.posts = <<>>
      /\ check.pc = "done"

\* a check that found its target down after an up record, a silent recovery
\* included, has generated exactly one DOWN alert
DownAfterRecoveryAlerts ==
  \A k \in Checks :
    LET check == CheckOf(k) IN
    Written(check) /\ check.previousStatus.isUp /\ ~check.currentStatus.isUp =>
      check.posts = <<"DOWN alert">>

\* C26: with recovery notifications disabled and the cycles run one after
\* another, a change from down to up still replaces the stored record with
\* isUp = TRUE and consecutiveFailures = 0 and generates nothing, and the next
\* change of the target from up to down generates exactly one DOWN alert.
C26_SilentRecoveryRearmsDownAlert ==
  ~config.sendRecoveryNotifications =>
    /\ StoreFollowsCycle
    /\ SilentRecoveryIsStored
    /\ DownAfterRecoveryAlerts
    /\ \A url \in DOMAIN notified : "recovery notification" \notin notified[url]

\* recovery notifications disabled; the target went down in the first cycle,
\* up in the second, and down again in the third, whose check read the up
\* record of the silent recovery and has generated its one DOWN alert
C26_Witness ==
  /\ ~config.sendRecoveryNotifications
  /\ \E k \in Checks :
       /\ history[k[2]] = <<FALSE, TRUE, FALSE>>
       /\ CheckOf(k).previousStatus.isUp
       /\ CheckOf(k).previousStatus.consecutiveFailures = 0
       /\ CheckOf(k).previousStatus.lastCheck = Date(2)
       /\ CheckOf(k).posts = <<"DOWN alert">>
       /\ notified[k[2]] = {"DOWN alert"}

(***************************************************************************)
(* The retry count of the environment.                                     *)
(***************************************************************************)
\* C27: for every retry count the configuration lets through (RETRY_ATTEMPTS
\* parsed as an integer, 0 and non-numbers replaced by 3, negative values
\* included), makeHttpRequest makes at least one attempt and ends either by
\* returning a {status, responseTime} result or by throwing the 'Request
\* failed after N attempts' error, never without one of the two.
C27_ProbeReturnsOrThrows ==
  \A k \in Checks :
    LET check == CheckOf(k) IN
    /\ config.retryAttempts \in {RetryAttemptsOf(text) : text \in RetryEnvs}
    /\ Written(check) =>
         /\ AttemptsMade(check) >= 1
         /\ \/ /\ check.result[1] = "returned"
               /\ check.result[2] \in [status : StatusCodes, responseTime : {Elapsed}]
            \/ /\ check.result[1] = "threw"
               /\ check.result[2][1] = "Request failed after"

====
